---------------------------- MODULE Spec2Model ----------------------------
(***************************************************************************)
(* A model of the interview-prep backend agent (src/src/agent/agent.py):   *)
(*   - process_history, the history processor that trims the transcript    *)
(*     handed to the model;                                                *)
(*   - _format_sse_event and sse_generator, which turn the events of an    *)
(*     agent run into the server-sent wire stream.                         *)
(* and of its tool server (src/src/tools/mcp.py):                          *)
(*   - the file name generate_prep derives from the markdown;              *)
(*   - generate_prep and its delegation to the research subagent;          *)
(*   - get_resume, upload_resume and list_preps over the object store.     *)
(* of research_company, the search tool of the research subagent          *)
(* (src/src/research_subagent/main.py), and of the transcript the chat UI  *)
(* keeps in the user session (src/ui/app.py).                              *)
(* Each part has its own specification (SpecHistory, SpecFormat, SpecChat, *)
(* SpecName, SpecDelegation, SpecStore, SpecResearch, SpecUi); the         *)
(* variables of the other parts stay at their idle values.                 *)
(***************************************************************************)
EXTENDS Integers, Sequences, FiniteSets, TLC

VARIABLES
    messages,      \* process_history: the argument, a list of ModelMessage
    trimmed,       \* outcome of process_history(messages)
    retrimmed,     \* outcome of process_history applied to its own result
    history_pc,    \* "input" | "trimmed" | "retrimmed"
    event,         \* _format_sse_event: the argument, a stream event
    sse_event,     \* outcome of _format_sse_event(event)
    format_pc,     \* "input" | "formatted"
    chat_request,  \* sse_generator: the ChatRequest
    user_input,    \* sse_generator: what is passed to the agent run
    run_events,    \* events the agent run has produced so far
    run_state,     \* "not-started" | "running" | "completed" | "abandoned" | an exception
    emitted,       \* SSE strings the generator has yielded so far
    escaped,       \* exception that left the generator, or NoException
    chat_pc,       \* "created" | "await-event" | "yielded" | "yielded-error" | "closed"
    name_input,    \* filename derivation: the markdown and the clock reading
    filename_base, \* outcome of the filename derivation of generate_prep
    name_pc,       \* "input" | "derived"
    call,          \* tool server: the calls of the tools, by call id
    store,         \* tool server: the object store, by key
    writes,        \* tool server: the store writes made, in order
    response,      \* research_company: the response of the search client
    research,      \* outcome of research_company
    research_pc,   \* "input" | "returned"
    session,       \* UI: the user session, with "user" and "chat_history"
    ui_outcome,    \* UI: outcome of the last handler
    ui_pc          \* UI: "connected" | "ready"

historyVars == <<messages, trimmed, retrimmed, history_pc>>

formatVars == <<event, sse_event, format_pc>>

chatVars == <<chat_request, user_input, run_events, run_state, emitted, escaped, chat_pc>>

nameVars == <<name_input, filename_base, name_pc>>

toolsVars == <<call, store, writes>>

researchVars == <<response, research, research_pc>>

uiVars == <<session, ui_outcome, ui_pc>>

vars == <<messages, trimmed, retrimmed, history_pc, event, sse_event, format_pc,
          chat_request, user_input, run_events, run_state, emitted, escaped, chat_pc,
          name_input, filename_base, name_pc, call, store, writes,
          response, research, research_pc, session, ui_outcome, ui_pc>>

---------------------------------------------------------------------------
(* Bounds of the model and constants of the program.                       *)

\* agent.py:43
MAX_HISTORY_MESSAGES == 20

\* longest arbitrary prefix of an input transcript
MaxHead == 3

\* longest periodic continuation of an input transcript
MaxFill == 21

---------------------------------------------------------------------------
(* Messages.  A ModelMessage is a ModelRequest or a ModelResponse with an  *)
(* ordered list of parts; a part is named by its pydantic-ai part_kind.    *)

UserRequest == [kind |-> "request", parts |-> <<"user-prompt">>]

ToolReturnRequest == [kind |-> "request", parts |-> <<"tool-return">>]

RetryAndReturnRequest == [kind |-> "request", parts |-> <<"retry-prompt", "tool-return">>]

TextResponse == [kind |-> "response", parts |-> <<"text">>]

ToolCallResponse == [kind |-> "response", parts |-> <<"text", "tool-call">>]

ModelMessage ==
    {UserRequest, ToolReturnRequest, RetryAndReturnRequest, TextResponse, ToolCallResponse}

\* isinstance(m, ModelResponse)
IsModelResponse(m) == m.kind = "response"

\* isinstance(m, ModelRequest)
IsModelRequest(m) == m.kind = "request"

\* any(isinstance(part, ToolReturnPart) for part in m.parts)
HasToolReturns(m) == \E i \in 1..Len(m.parts) : m.parts[i] = "tool-return"

HasToolCalls(m) == \E i \in 1..Len(m.parts) : m.parts[i] = "tool-call"

---------------------------------------------------------------------------
(* Outcomes of a call: a returned value, or an exception raised.  A Python  *)
(* str is a sequence of characters (a run of characters that no operation  *)
(* looks into may stand as one element).                                   *)

Exception(cls, message) == [cls |-> cls, message |-> message]

\* str(e)
Str(e) == e.message

Returned(v) == [status |-> "returned", value |-> v]

Raised(e) == [status |-> "raised", exc |-> e]

NotCalled == [status |-> "not-called"]

HasReturned(o) == o.status = "returned"

HasRaised(o) == o.status = "raised"

\* list.__getitem__ on an empty list
IndexError == Exception("IndexError", <<"list index out of range">>)

---------------------------------------------------------------------------
(* process_history (agent.py:56-93).                                       *)

\* a window one message too long: messages[-(n + 1):]
LastNOffByOne(s, n) == IF Len(s) <= n + 1 THEN s ELSE SubSeq(s, Len(s) - n, Len(s))

\* messages[-n:] for n >= 1
LastN(s, n) == IF Len(s) <= n THEN s ELSE SubSeq(s, Len(s) - n + 1, Len(s))

RECURSIVE DropLeadingResponses(_)
\* while trimmed and isinstance(trimmed[0], ModelResponse): trimmed = trimmed[1:]
DropLeadingResponses(s) ==
    IF s # <<>> /\ IsModelResponse(Head(s))
    THEN DropLeadingResponses(Tail(s))
    ELSE s

\* the tool-return check at the window boundary (agent.py:83-91); the
\* subscript trimmed[0] raises IndexError on an empty list
SkipOrphanedToolReturns(t) ==
    IF t = <<>>
    THEN Raised(IndexError)
    ELSE IF IsModelRequest(Head(t)) /\ HasToolReturns(Head(t))
         THEN Returned(DropLeadingResponses(Tail(t)))
         ELSE Returned(t)

\* the length test written with < instead of <=
process_history_strict(msgs) ==
    IF Len(msgs) < MAX_HISTORY_MESSAGES
    THEN Returned(msgs)
    ELSE SkipOrphanedToolReturns(
             DropLeadingResponses(LastN(msgs, MAX_HISTORY_MESSAGES)))

\* the early return for short transcripts left out
process_history_always_trims(msgs) ==
    SkipOrphanedToolReturns(
        DropLeadingResponses(LastN(msgs, MAX_HISTORY_MESSAGES)))

process_history(msgs) ==
    IF Len(msgs) <= MAX_HISTORY_MESSAGES
    THEN Returned(msgs)
    ELSE SkipOrphanedToolReturns(
             DropLeadingResponses(LastN(msgs, MAX_HISTORY_MESSAGES)))

---------------------------------------------------------------------------
(* Python values carried by stream events, and json.dumps.                 *)

PyStr(chars) == [type |-> "str", chars |-> chars]

None == [type |-> "NoneType"]

PyList(items) == [type |-> "list", items |-> items]

\* a dict in insertion order: a sequence of <<key, value>>, keys being str
PyDict(items) == [type |-> "dict", items |-> items]

\* the escapes json.dumps applies to the characters of a str
JsonEscape(c) ==
    CASE c = "\"" -> <<"\\", "\"">>
      [] c = "\\" -> <<"\\", "\\">>
      [] c = "\n" -> <<"\\", "n">>
      [] OTHER -> <<c>>

RECURSIVE JsonEscapeAll(_)
JsonEscapeAll(chars) ==
    IF chars = <<>> THEN <<>> ELSE JsonEscape(Head(chars)) \o JsonEscapeAll(Tail(chars))

JsonString(chars) == <<"\"">> \o JsonEscapeAll(chars) \o <<"\"">>

RECURSIVE json_dumps(_), JsonItems(_), JsonPairs(_)
\* json.dumps(v) with the default separators, as a str
json_dumps(v) ==
    CASE v.type = "str" -> JsonString(v.chars)
      [] v.type = "NoneType" -> <<"n", "u", "l", "l">>
      [] v.type = "list" -> <<"[">> \o JsonItems(v.items) \o <<"]">>
      [] v.type = "dict" -> <<"{">> \o JsonPairs(v.items) \o <<"}">>

JsonItems(items) ==
    IF items = <<>> THEN <<>>
    ELSE json_dumps(Head(items))
         \o (IF Tail(items) = <<>> THEN <<>> ELSE <<",", " ">> \o JsonItems(Tail(items)))

JsonPairs(pairs) ==
    IF pairs = <<>> THEN <<>>
    ELSE JsonString(Head(pairs)[1]) \o <<":", " ">> \o json_dumps(Head(pairs)[2])
         \o (IF Tail(pairs) = <<>> THEN <<>> ELSE <<",", " ">> \o JsonPairs(Tail(pairs)))

\* s.startswith(prefix)
StartsWith(s, prefix) ==
    /\ Len(s) >= Len(prefix)
    /\ SubSeq(s, 1, Len(prefix)) = prefix

\* sub in s
Contains(s, sub) ==
    \E i \in 0..(Len(s) - Len(sub)) : SubSeq(s, i + 1, i + Len(sub)) = sub

---------------------------------------------------------------------------
(* String literals of agent.py.                                            *)

HTTPS_PREFIX == <<"h", "t", "t", "p", "s", ":", "/", "/">>

DOT_S3_DOT == <<".", "s", "3", ".">>

GENERATE_PREP == <<"g", "e", "n", "e", "r", "a", "t", "e", "_", "p", "r", "e", "p">>

LIST_PREPS == <<"l", "i", "s", "t", "_", "p", "r", "e", "p", "s">>

GET_RESUME == <<"g", "e", "t", "_", "r", "e", "s", "u", "m", "e">>

KeyText == <<"t", "e", "x", "t">>

KeyName == <<"n", "a", "m", "e">>

KeyArgs == <<"a", "r", "g", "s">>

KeyUrl == <<"u", "r", "l">>

KeyPreps == <<"p", "r", "e", "p", "s">>

KeyMessage == <<"m", "e", "s", "s", "a", "g", "e">>

\* agent.py:156 (the back quotes around upload_resume are left out)
UPLOAD_INSTRUCTION ==
    <<"\n", "\n", "The user has attached a PDF resume. Call the upload_resume tool.">>

---------------------------------------------------------------------------
(* Stream events of an agent run (pydantic_ai.messages) and the SSE string *)
(* built for them.                                                         *)

TextPart(content) == [part_kind |-> "text", content |-> content]

ToolCallPart(tool_name, args) ==
    [part_kind |-> "tool-call", tool_name |-> tool_name, args |-> args]

TextPartDelta(content_delta) ==
    [part_delta_kind |-> "text", content_delta |-> content_delta]

ToolCallPartDelta(args_delta) ==
    [part_delta_kind |-> "tool_call", args_delta |-> args_delta]

ToolReturnPart(tool_name, content) ==
    [part_kind |-> "tool-return", tool_name |-> tool_name, content |-> content]

RetryPromptPart(tool_name, content) ==
    [part_kind |-> "retry-prompt", tool_name |-> tool_name, content |-> content]

PartStartEvent(part) == [event_kind |-> "part_start", part |-> part]

PartDeltaEvent(delta) == [event_kind |-> "part_delta", delta |-> delta]

FunctionToolCallEvent(part) == [event_kind |-> "function_tool_call", part |-> part]

FunctionToolResultEvent(result) == [event_kind |-> "function_tool_result", result |-> result]

AgentRunResultEvent == [event_kind |-> "agent_run_result"]

\* f"event: {kind}\ndata: {data}\n\n"
SseEvent(kind, data) == [event |-> kind, data |-> data]

\* content.startswith(...) on a value that is not a str
AttributeError(v) ==
    Exception("AttributeError",
              <<v.type, " object has no attribute startswith">>)

---------------------------------------------------------------------------
(* _format_sse_event (agent.py:103-139).                                   *)

\* case FunctionToolResultEvent(result=result) (agent.py:125-139)
FormatToolResult(result) ==
    IF result.tool_name = GENERATE_PREP
    THEN IF result.content.type # "str"
         THEN Raised(AttributeError(result.content))
         ELSE IF /\ StartsWith(result.content.chars, HTTPS_PREFIX)
                 /\ Contains(result.content.chars, DOT_S3_DOT)
              THEN Returned(SseEvent("pdf_generated",
                                     json_dumps(PyDict(<< <<KeyUrl, result.content>> >>))))
              ELSE Returned(None)
    ELSE IF result.tool_name = LIST_PREPS
         THEN Returned(SseEvent("prep_list",
                                json_dumps(PyDict(<< <<KeyPreps, result.content>> >>))))
         ELSE Returned(None)

\* case FunctionToolCallEvent(part=part) (agent.py:114-123)
FormatToolCall(part) ==
    LET args == IF part.args.type = "str"
                THEN part.args
                ELSE PyStr(json_dumps(part.args))
    IN Returned(SseEvent("tool_call",
                         json_dumps(PyDict(<< <<KeyName, PyStr(part.tool_name)>>,
                                              <<KeyArgs, args>> >>))))

\* the SSE string of a text chunk (agent.py:107-108, 111-112)
FormatToken(text) ==
    Returned(SseEvent("token", json_dumps(PyDict(<< <<KeyText, text>> >>))))

_format_sse_event(e) ==
    IF e.event_kind = "part_start" /\ e.part.part_kind = "text"
    THEN FormatToken(e.part.content)
    ELSE IF e.event_kind = "part_delta" /\ e.delta.part_delta_kind = "text"
    THEN FormatToken(e.delta.content_delta)
    ELSE IF e.event_kind = "function_tool_call"
    THEN FormatToolCall(e.part)
    ELSE IF e.event_kind = "function_tool_result"
    THEN FormatToolResult(e.result)
    ELSE Returned(None)

---------------------------------------------------------------------------
(* Inputs of _format_sse_event: the contents a tool result can carry are   *)
(* strings put together from the fragments below, None, and lists.         *)

\* most fragments in a content string
MaxFragments == 3

Fragments == {HTTPS_PREFIX, <<"h", "t", "t", "p", "s", ":", "/">>, DOT_S3_DOT, <<".", "s", "3">>, <<"b">>}

RECURSIVE StringsOf(_)
\* the strings made of at most n fragments
StringsOf(n) ==
    IF n = 0 THEN {<<>>}
    ELSE LET shorter == StringsOf(n - 1)
         IN shorter \cup {f \o t : f \in Fragments, t \in shorter}

\* what list_preps returns after the tool JSON of the tool protocol: a list of dicts
PrepItem == PyDict(<< <<KeyName, PyStr(<<"a", "\"">>)>>,
                      <<KeyUrl, PyStr(HTTPS_PREFIX \o <<"b">> \o DOT_S3_DOT)>> >>)

\* a RetryPromptPart's content for invalid arguments: a list of error details
ErrorDetails == PyList(<<PyDict(<< <<KeyMessage, PyStr(<<"Invalid JSON">>)>> >>)>>)

NonStringContents == {None, PyList(<<>>), PyList(<<PrepItem>>), ErrorDetails}

Contents(n) == {PyStr(c) : c \in StringsOf(n)} \cup NonStringContents

ToolNames == {GENERATE_PREP, LIST_PREPS, GET_RESUME}

ToolResultEvents(n) ==
    {FunctionToolResultEvent(ToolReturnPart(t, c)) : t \in ToolNames, c \in Contents(n)}
    \cup {FunctionToolResultEvent(RetryPromptPart(t, c)) :
              t \in ToolNames, c \in {PyStr(<<"b">>), ErrorDetails}}

ToolArgs == {PyStr(<<"{", "}">>), None, PyDict(<< <<KeyName, PyStr(<<"b">>)>> >>)}

OtherEvents ==
    {PartStartEvent(TextPart(PyStr(c))) : c \in {<<>>, <<"H", "i">>, <<"\"">>}}
    \cup {PartStartEvent(ToolCallPart(t, None)) : t \in ToolNames}
    \cup {PartDeltaEvent(TextPartDelta(PyStr(c))) : c \in {<<"H", "i">>, <<"\\", "\n">>}}
    \cup {PartDeltaEvent(ToolCallPartDelta(PyStr(<<"{">>)))}
    \cup {FunctionToolCallEvent(ToolCallPart(t, a)) : t \in ToolNames, a \in ToolArgs}
    \cup {AgentRunResultEvent}

StreamEvents == ToolResultEvents(MaxFragments) \cup OtherEvents

IdleFormat ==
    /\ event = AgentRunResultEvent
    /\ sse_event = NotCalled
    /\ format_pc = "idle"

---------------------------------------------------------------------------
(* sse_generator (agent.py:142-176): its request, the events of the run    *)
(* it drives, and the exceptions the run can raise.                        *)

\* most events an agent run produces in one stream
MaxEvents == 3

Bytes(data) == [type |-> "bytes", data |-> data]

BinaryContent(data, media_type) ==
    [type |-> "BinaryContent", data |-> data, media_type |-> media_type]

\* ChatRequest (models.py:7-23), with the fields sse_generator reads
ChatRequest(message, resume_bytes) ==
    [message |-> message, resume_bytes |-> resume_bytes]

ChatRequests ==
    {ChatRequest(PyStr(<<"h", "i">>), b) : b \in {None, Bytes(<<>>), Bytes(<<"%PDF">>)}}

\* `if chat_request.resume_bytes:` -- None and b"" are both false
IsTruthy(v) == v.type # "NoneType" /\ (v.type = "bytes" => v.data # <<>>)

\* agent.py:152-161
UserInput(request) ==
    IF IsTruthy(request.resume_bytes)
    THEN PyList(<<PyStr(request.message.chars \o UPLOAD_INSTRUCTION),
                  BinaryContent(request.resume_bytes.data, "application/pdf")>>)
    ELSE request.message

ChatEvents ==
    { PartStartEvent(TextPart(PyStr(<<"H", "i">>))),
      PartStartEvent(ToolCallPart(GENERATE_PREP, None)),
      PartDeltaEvent(TextPartDelta(PyStr(<<"\\", "\n">>))),
      FunctionToolCallEvent(ToolCallPart(GENERATE_PREP, PyDict(<< <<KeyName, PyStr(<<"b">>)>> >>))),
      FunctionToolResultEvent(ToolReturnPart(GENERATE_PREP, PyStr(HTTPS_PREFIX \o <<"b">> \o DOT_S3_DOT))),
      FunctionToolResultEvent(ToolReturnPart(GENERATE_PREP, PyStr(<<"b">>))),
      FunctionToolResultEvent(RetryPromptPart(GENERATE_PREP, ErrorDetails)),
      FunctionToolResultEvent(ToolReturnPart(LIST_PREPS, PyList(<<PrepItem>>))),
      FunctionToolResultEvent(ToolReturnPart(GET_RESUME, PyStr(<<"b">>))),
      AgentRunResultEvent }

\* exceptions (subclasses of Exception) an agent run raises
RunExceptions ==
    { Exception("ModelHTTPError", <<"status_code: 500">>),
      Exception("UnexpectedModelBehavior", <<"b", "\"">>),
      Exception("TimeoutError", <<>>) }

NoException == [cls |-> "NoException"]

RunState(name) == [state |-> name]

RunRaised(e) == [state |-> "raised", exc |-> e]

\* agent.py:175-176
ErrorSseEvent(e) ==
    SseEvent("error", json_dumps(PyDict(<< <<KeyMessage, PyStr(Str(e))>> >>)))

\* an exception handler that logs and re-raises
ReraiseException(e) == [emit |-> <<>>, escaped |-> e, pc |-> "closed"]

\* except Exception as e (agent.py:173-176): the error event is yielded and
\* nothing leaves the generator
HandleException(e) ==
    [emit |-> <<ErrorSseEvent(e)>>, escaped |-> NoException, pc |-> "yielded-error"]

IdleChat ==
    /\ chat_request = ChatRequest(PyStr(<<>>), None)
    /\ user_input = None
    /\ run_events = <<>>
    /\ run_state = RunState("not-started")
    /\ emitted = <<>>
    /\ escaped = NoException
    /\ chat_pc = "idle"

---------------------------------------------------------------------------
(* The file name generate_prep derives from the markdown                   *)
(* (src/src/tools/mcp.py:218-224).                                         *)

\* longest markdown text given to the derivation
MaxMarkdown == 4

\* \s of the re module, for the characters of the model
IsSpace(c) == c \in {" ", "\n", "\t"}

\* \w of the re module, for the characters of the model
IsWord(c) == c \in {"A", "C", "P", "a", "b", "c", "e", "m", "o", "p", "r", "3", "_"}

\* str.lower() on one character
Lower(c) ==
    CASE c = "A" -> "a"
      [] c = "C" -> "c"
      [] c = "P" -> "p"
      [] OTHER -> c

NoMatch == [matched |-> FALSE]

Match(group) == [matched |-> TRUE, group |-> group]

\* the last index of the line that holds index p
EndOfLine(s, p) ==
    IF \E e \in p..Len(s) : s[e] = "\n"
    THEN (CHOOSE e \in p..Len(s) : s[e] = "\n" /\ \A k \in p..(e - 1) : s[k] # "\n") - 1
    ELSE Len(s)

\* the length of the run of \s characters that starts after index j
SpaceRun(s, j) ==
    IF \A k \in (j + 1)..Len(s) : IsSpace(s[k])
    THEN Len(s) - j
    ELSE (CHOOSE p \in (j + 1)..Len(s) :
              ~IsSpace(s[p]) /\ \A k \in (j + 1)..(p - 1) : IsSpace(s[k])) - j - 1

\* the indices where (.+?)$ can start after the colon at j: \s* gives back
\* characters one at a time, and . matches anything but a newline
GroupStarts(s, j) ==
    {p \in (j + 1)..(j + 1 + SpaceRun(s, j)) : p <= Len(s) /\ s[p] # "\n"}

\* the colons that end #.*?: for the # at index i
TitleColons(s, i) ==
    {j \in (i + 1)..Len(s) :
        /\ s[j] = ":"
        /\ \A k \in (i + 1)..(j - 1) : s[k] # "\n"
        /\ GroupStarts(s, j) # {}}

Min(S) == CHOOSE x \in S : \A y \in S : x <= y

Max(S) == CHOOSE x \in S : \A y \in S : y <= x

\* re.search(r"#.*?:\s*(.+?)$", markdown_content, re.MULTILINE): the
\* leftmost #, the nearest colon on its line after which the rest can
\* match, the longest run of \s, and the group up to the end of its line
TitleSearch(s) ==
    LET hashes == {i \in 1..Len(s) : s[i] = "#" /\ TitleColons(s, i) # {}}
    IN IF hashes = {} THEN NoMatch
       ELSE LET p == Max(GroupStarts(s, Min(TitleColons(s, Min(hashes)))))
            IN Match(SubSeq(s, p, EndOfLine(s, p)))

RECURSIVE Strip(_)
\* str.strip()
Strip(s) ==
    IF s = <<>> THEN s
    ELSE IF IsSpace(Head(s)) THEN Strip(Tail(s))
    ELSE IF IsSpace(s[Len(s)]) THEN Strip(SubSeq(s, 1, Len(s) - 1))
    ELSE s

\* re.sub(r"[^\w\s-]", "", s)
RemoveSpecials(s) == SelectSeq(s, LAMBDA c : IsWord(c) \/ IsSpace(c) \/ c = "-")

RECURSIVE HyphenateSpaces(_)
\* re.sub(r"\s+", "-", s)
HyphenateSpaces(s) ==
    IF s = <<>> THEN s
    ELSE IF IsSpace(Head(s))
         THEN IF Len(s) > 1 /\ IsSpace(s[2])
              THEN HyphenateSpaces(Tail(s))
              ELSE <<"-">> \o HyphenateSpaces(Tail(s))
         ELSE <<Head(s)>> \o HyphenateSpaces(Tail(s))

\* str.lower()
LowerAll(s) == [i \in 1..Len(s) |-> Lower(s[i])]

\* mcp.py:221-222
Slugify(title) == LowerAll(HyphenateSpaces(RemoveSpecials(Strip(title))))

\* f"prep-{datetime.now().strftime('%Y%m%d-%H%M%S')}" (mcp.py:224); the
\* clock reading is a number of seconds
FallbackName(now) == <<"p", "r", "e", "p", "-", ToString(now)>>

\* mcp.py:219-224
FilenameBase(markdown_content, now) ==
    LET title_match == TitleSearch(markdown_content)
    IN IF title_match.matched
       THEN Slugify(title_match.group)
       ELSE FallbackName(now)

\* the example of the documentation: "# Prep: Acme Corp"
ExampleMarkdown ==
    <<"#", " ", "P", "r", "e", "p", ":", " ", "A", "c", "m", "e", " ", "C", "o", "r", "p">>

MarkdownChars == {"#", ":", " ", "\n", "A", "b", "&", "-"}

Markdowns ==
    UNION {[1..n -> MarkdownChars] : n \in 0..MaxMarkdown}
    \cup {ExampleMarkdown, ExampleMarkdown \o <<"\n", "b">>, <<"b", "\n">> \o ExampleMarkdown}

IdleName ==
    /\ name_input = [markdown_content |-> <<>>, now |-> 0]
    /\ filename_base = NotCalled
    /\ name_pc = "idle"

IdleHistory ==
    /\ messages = <<>>
    /\ trimmed = NotCalled
    /\ retrimmed = NotCalled
    /\ history_pc = "idle"

---------------------------------------------------------------------------
(* research_company, the search tool of the research subagent              *)
(* (src/src/research_subagent/main.py:33-58).                              *)

\* most results in a search response
MaxResults == 3

NO_RESULTS_MSG == PyStr(<<"No results found.">>)

\* one result of the search client
SearchResult(title, url, content) == [title |-> title, url |-> url, content |-> content]

\* a response without the results key
ResponseWithoutResults == [query |-> <<"q">>]

SearchResponse(results) == [query |-> <<"q">>, results |-> results]

\* response.get("results", [])
ResponseResults(r) == IF "results" \in DOMAIN r THEN r.results ELSE <<>>

\* f"**{result['title']}**\nURL: {result['url']}\n{result['content']}\n"
FormatResult(result) ==
    <<"**">> \o result.title \o <<"**", "\n", "URL: ">> \o result.url
        \o <<"\n">> \o result.content \o <<"\n">>

RECURSIVE Join(_, _)
\* sep.join(items)
Join(sep, items) ==
    IF items = <<>> THEN <<>>
    ELSE IF Len(items) = 1 THEN Head(items)
    ELSE Head(items) \o sep \o Join(sep, Tail(items))

\* "\n---\n".join(results) if results else "No results found."
JoinedOrNoResults(results) ==
    IF results = <<>> THEN NO_RESULTS_MSG ELSE PyStr(Join(<<"\n---\n">>, results))

\* main.py:52-58: the return statement is in the body of the for loop, so
\* the loop ends in its first iteration; with no iteration the function
\* ends without a return statement and gives None
research_company(r) ==
    LET found == ResponseResults(r)
    IN IF found = <<>>
       THEN Returned(None)
       ELSE Returned(JoinedOrNoResults(<<FormatResult(found[1])>>))

SearchResults ==
    {SearchResult(title, <<"u">>, content) :
         title \in {<<"T">>, <<"V">>}, content \in {<<>>, <<"c">>}}

SearchResponses ==
    {ResponseWithoutResults}
        \cup {SearchResponse(results) :
                  results \in UNION {[1..n -> SearchResults] : n \in 0..MaxResults}}

IdleResearch ==
    /\ response = ResponseWithoutResults
    /\ research = NotCalled
    /\ research_pc = "idle"

---------------------------------------------------------------------------
(* The chat UI (src/ui/app.py): the transcript of the user session.        *)

\* most steps of a persisted thread
MaxSteps == 3

\* most messages of a session transcript
MaxTranscript == 5

\* ModelRequest(parts=[UserPromptPart(content=content)])
PromptRequest(content) ==
    [kind |-> "request", parts |-> <<[part_kind |-> "user-prompt", content |-> content]>>]

\* ModelResponse(parts=[TextPart(content=content)])
ReplyResponse(content) ==
    [kind |-> "response", parts |-> <<[part_kind |-> "text", content |-> content]>>]

\* the user session: a dict, a key that was never set being absent
EmptySession == [k \in {} |-> None]

\* cl.user_session.get(key)
SessionGet(s, key) == IF key \in DOMAIN s THEN s[key] ELSE None

\* cl.user_session.set(key, value)
SessionSet(s, key, value) ==
    [k \in DOMAIN s \cup {key} |-> IF k = key THEN value ELSE s[k]]

\* cl.user_session.get("chat_history") or []
ChatHistoryOrEmpty(s) ==
    IF SessionGet(s, "chat_history") = None \/ SessionGet(s, "chat_history") = PyList(<<>>)
    THEN <<>>
    ELSE SessionGet(s, "chat_history").items

\* a step of a persisted thread: a dict that may lack type and output
Step(type, output) == [type |-> type, output |-> output]

StepWithoutOutput(type) == [type |-> type]

\* step.get(key, "")
StepGet(step, key) == IF key \in DOMAIN step THEN step[key] ELSE <<>>

RECURSIVE HistoryOfSteps(_)
\* the loop of resume (app.py:126-133)
HistoryOfSteps(steps) ==
    IF steps = <<>> THEN <<>>
    ELSE LET step == Head(steps)
             step_type == StepGet(step, "type")
             output == StepGet(step, "output")
         IN (IF step_type = "user_message" /\ output # <<>>
             THEN <<PromptRequest(output)>>
             ELSE IF step_type = "assistant_message" /\ output # <<>>
                  THEN <<ReplyResponse(output)>>
                  ELSE <<>>)
                \o HistoryOfSteps(Tail(steps))

\* the greeting of start (app.py:33-35)
Greeting(identifier) ==
    <<"Hello, ", identifier, "! I'm your Interview Preparation Assistant. ",
      "Upload your resume (PDF) to get started, or ask me about your ",
      "previous preparations.">>

Users == {None, [identifier |-> "u"]}

Steps ==
    {Step(type, output) :
         type \in {"user_message", "assistant_message", "tool"},
         output \in {<<>>, <<"hi">>, Greeting("u")}}
        \cup {StepWithoutOutput("user_message")}

Threads == UNION {[1..n -> Steps] : n \in 0..MaxSteps}

MessageContents == {<<"hi">>, <<"yo">>}

\* the exceptions that leave on_message
UiErrors == {Exception("RemoteProtocolError", <<"Server disconnected">>)}

IdleUi ==
    /\ session = EmptySession
    /\ ui_outcome = NotCalled
    /\ ui_pc = "idle"

---------------------------------------------------------------------------
(* The tool server (src/src/tools/mcp.py): the object store, the caller    *)
(* identity, and the tools get_resume, upload_resume, list_preps and       *)
(* generate_prep with its delegation to the research subagent.             *)

\* for _ in range(120) (mcp.py:186)
MAX_POLL_ATTEMPTS == 120

\* ExpiresIn of the presigned URLs (mcp.py:126, mcp.py:243)
EXPIRES_IN == 3600

\* the largest clock reading
MaxNow == 1

\* the polls within which the collaborator ends a task when two calls run
MaxWait == 2

NO_RESUME_MSG ==
    PyStr(<<"No resume found. Please ask the user to upload their PDF resume ",
            "so you can process it.">>)

RESUME_UPLOADED_MSG == PyStr(<<"Resume uploaded successfully.">>)

TIMED_OUT_MSG == PyStr(<<"Research subagent timed out.">>)

NO_CONTENT_MSG == PyStr(<<"Research subagent returned no content.">>)

\* f"Research subagent failed with state: {state}"
FailedMsg(state) == PyStr(<<"Research subagent failed with state: ", state>>)

ValueError == Exception("ValueError", <<"Missing X-User-Email header">>)

\* response["Contents"] when the listing holds no object
KeyError == Exception("KeyError", <<"Contents">>)

\* not v, for None and str
PyNot(v) == v = None \/ (v.type = "str" /\ v.chars = <<>>)

RECURSIVE ReplaceAt(_)
\* email.replace("@", "_at_")
ReplaceAt(chars) ==
    IF chars = <<>> THEN <<>>
    ELSE IF Head(chars) = "@"
         THEN <<"_", "a", "t", "_">> \o ReplaceAt(Tail(chars))
         ELSE <<Head(chars)>> \o ReplaceAt(Tail(chars))

\* an identity check that lets the empty header value through
_get_user_email_unless_none(header) ==
    IF header = None THEN Raised(ValueError) ELSE Returned(ReplaceAt(header.chars))

\* mcp.py:40-46, from the value of headers.get("x-user-email")
_get_user_email(header) ==
    IF PyNot(header) THEN Raised(ValueError) ELSE Returned(ReplaceAt(header.chars))

\* f"{email}/resume.txt"
ResumeKey(email) == email \o <<"/", "r", "e", "s", "u", "m", "e", ".", "t", "x", "t">>

\* f"{email}/preps/"
PrepsPrefix(email) == email \o <<"/", "p", "r", "e", "p", "s", "/">>

\* f"{email}/preps/{filename_base}.pdf"
PdfKey(email, base) == PrepsPrefix(email) \o base \o <<".", "p", "d", "f">>

IsPrefix(p, s) == Len(p) <= Len(s) /\ SubSeq(s, 1, Len(p)) = p

\* key.removeprefix(prefix)
RemovePrefix(s, p) == IF IsPrefix(p, s) THEN SubSeq(s, Len(p) + 1, Len(s)) ELSE s

\* filename.removesuffix(".pdf")
RemovePdfSuffix(s) ==
    IF Len(s) >= 4 /\ SubSeq(s, Len(s) - 3, Len(s)) = <<".", "p", "d", "f">>
    THEN SubSeq(s, 1, Len(s) - 4)
    ELSE s

\* the object store: a function from keys to objects
EmptyStore == [k \in {} |-> None]

Object(body, now) == [Body |-> body, LastModified |-> now]

\* a put that keeps an object already stored at the key
PutIfAbsent(s, key, object) ==
    [k \in DOMAIN s \cup {key} |-> IF k \in DOMAIN s THEN s[k] ELSE object]

\* s3.put_object
PutObject(s, key, object) ==
    [k \in DOMAIN s \cup {key} |-> IF k = key THEN object ELSE s[k]]

\* s3.list_objects_v2(Prefix=prefix): the keys of the listing
ListKeys(s, prefix) == {k \in DOMAIN s : IsPrefix(prefix, k)}

\* s3.generate_presigned_url("get_object", ...)
PresignedUrl(key) == [type |-> "presigned_url", Key |-> key, ExpiresIn |-> EXPIRES_IN]

\* content.encode("utf-8")
Encode(chars) == Bytes(chars)

\* bytes.decode("utf-8")
Decode(body) == PyStr(body.data)

\* md2pdf(tmp_path, raw=markdown_content, ...) and tmp_path.read_bytes()
Pdf(markdown_content) == [type |-> "pdf", raw |-> markdown_content]

\* a fetch that gives the empty text for a missing object
_fetch_resume_text_or_empty(s, email) ==
    IF ResumeKey(email) \in DOMAIN s THEN Decode(s[ResumeKey(email)].Body) ELSE PyStr(<<>>)

\* mcp.py:49-59
_fetch_resume_text(s, email) ==
    IF ResumeKey(email) \in DOMAIN s THEN Decode(s[ResumeKey(email)].Body) ELSE None

\* InterviewPrepMetadata (mcp.py:97-102)
InterviewPrepMetadata(name, created_at, url) ==
    [name |-> name, created_at |-> created_at, url |-> url]

\* "\n\n".join([...]) of mcp.py:165-172, the text of the message
DelegationText(resume_text, job_description) ==
    <<"## Candidate Resume", "\n\n">> \o resume_text.chars
        \o <<"\n\n", "## Job Description", "\n\n">> \o job_description

\* the parts of the artifacts of the A2A protocol
A2ATextPart(text) == [kind |-> "text", text |-> text]

A2AFilePart == [kind |-> "file"]

Artifact(parts) == [parts |-> parts]

\* a task without the artifacts key
Task(state) == [status |-> [state |-> state]]

TaskWithArtifacts(state, artifacts) ==
    [status |-> [state |-> state], artifacts |-> artifacts]

\* task.get("artifacts", [])
TaskArtifacts(task) == IF "artifacts" \in DOMAIN task THEN task.artifacts ELSE <<>>

RECURSIVE TextOfParts(_)
\* the inner loop of mcp.py:211-213
TextOfParts(parts) ==
    IF parts = <<>> THEN <<>>
    ELSE (IF Head(parts).kind = "text" THEN Head(parts).text ELSE <<>>)
             \o TextOfParts(Tail(parts))

RECURSIVE TextOfArtifacts(_)
TextOfArtifacts(artifacts) ==
    IF artifacts = <<>> THEN <<>>
    ELSE TextOfParts(Head(artifacts).parts) \o TextOfArtifacts(Tail(artifacts))

\* an extraction that reads the first artifact only
ExtractFirstArtifact(task) ==
    IF TaskArtifacts(task) = <<>> THEN <<>>
    ELSE TextOfParts(Head(TaskArtifacts(task)).parts)

\* an extraction that gives a heading when the task has no text
ExtractOrPlaceholder(task) ==
    IF TextOfArtifacts(TaskArtifacts(task)) = <<>>
    THEN <<"#">>
    ELSE TextOfArtifacts(TaskArtifacts(task))

\* mcp.py:209-213
ExtractMarkdown(task) == TextOfArtifacts(TaskArtifacts(task))

\* a match that takes rejected for a state still in progress
IsFailureStateButRejected(state) == state \in {"failed", "canceled"}

\* case "failed" | "canceled" | "rejected" (mcp.py:195)
IsFailureState(state) == state \in {"failed", "canceled", "rejected"}

\* a range with one more element: range(n + 1)
RangePlusOne(n) == 0..n

\* range(n)
Range(n) == 0..(n - 1)

TerminalStates == {"completed", "failed", "canceled", "rejected"}

NonTerminalStates == {"submitted", "working", "input-required"}

\* the errors of the HTTP client of a2a_client
TransportErrors ==
    {Exception("ConnectError", <<"All connection attempts failed">>),
     Exception("ReadTimeout", <<"">>)}

\* the values of headers.get("x-user-email")
EmailAtB == PyStr(<<"a", "@", "b">>)

EmailUnderscores == PyStr(<<"a", "_", "a", "t", "_", "b">>)

Headers == {None, PyStr(<<>>), EmailAtB, EmailUnderscores}

JobDescription == <<"J">>

ResumeContents == {<<>>, <<"R">>}

ArtifactLists ==
    {<<>>,
     <<Artifact(<<>>)>>,
     <<Artifact(<<A2ATextPart(<<>>)>>)>>,
     <<Artifact(<<A2AFilePart>>)>>,
     <<Artifact(<<A2ATextPart(<<"#", " ", "A">>), A2ATextPart(<<"c", "m", "e", "\n">>)>>)>>,
     <<Artifact(<<A2ATextPart(<<"#", " ", "P", ":", " ">>), A2AFilePart>>),
       Artifact(<<A2ATextPart(<<"A", "c">>)>>)>>,
     <<Artifact(<<A2ATextPart(<<"A", "c">>)>>),
       Artifact(<<A2ATextPart(<<"#", " ", "P", ":", " ">>)>>)>>,
     <<Artifact(<<A2ATextPart(<<"#", " ", "P", ":", " ", "A", "c", "\n", "b">>)>>)>>}

CompletedTasks ==
    {Task("completed")} \cup {TaskWithArtifacts("completed", a) : a \in ArtifactLists}

Tasks == {Task(state) : state \in TerminalStates \cup NonTerminalStates} \cup CompletedTasks

\* a call of a tool before it is made, with the counters of what it did
IdleCall ==
    [tool |-> "none", header |-> None, argument |-> <<>>, pc |-> "idle",
     email |-> <<>>, resume_text |-> None, text |-> <<>>,
     submits |-> 0, polls |-> 0, sleeps |-> 0, store_reads |-> 0, store_writes |-> 0,
     converted |-> 0, keys |-> {}, task |-> None, markdown_content |-> <<>>,
     result |-> NotCalled, concurrent_with |-> {}, entered_after |-> {},
     first_terminal_poll |-> 0, first_terminal_state |-> "none",
     nonterminal_seen |-> 0, completed_task |-> None, requests_at_error |-> 0,
     error |-> NoException]

IsActive(k) == k.pc \notin {"idle", "done"}

\* the call as the tool function is entered
Entered(c, tool, header, argument) ==
    [IdleCall EXCEPT !.tool = tool, !.header = header, !.argument = argument,
                     !.concurrent_with = {x \in DOMAIN call : IsActive(call[x])},
                     !.entered_after = {x \in DOMAIN call : call[x].pc = "done"}]

Write(c, key, body) == [call |-> c, key |-> key, body |-> body]

IdleTools ==
    /\ call = [c \in {} |-> IdleCall]
    /\ store = EmptyStore
    /\ writes = <<>>

\* get_resume (mcp.py:62-69)
GetResume(c, header) ==
    /\ call[c].pc = "idle"
    /\ LET k == Entered(c, "get_resume", header, <<>>)
           email == _get_user_email(header)
       IN IF HasRaised(email)
          THEN call' = [call EXCEPT ![c] = [k EXCEPT !.pc = "done", !.result = email]]
          ELSE LET resume_text == _fetch_resume_text(store, email.value)
               IN call' = [call EXCEPT ![c] =
                      [k EXCEPT !.pc = "done", !.email = email.value,
                                !.resume_text = resume_text,
                                !.store_reads = 1,
                                !.keys = {ResumeKey(email.value)},
                                !.result = Returned(IF PyNot(resume_text)
                                                    THEN NO_RESUME_MSG
                                                    ELSE resume_text)]]
    /\ UNCHANGED <<store, writes>>
    /\ UNCHANGED <<historyVars, formatVars, chatVars, nameVars, researchVars, uiVars>>

\* upload_resume (mcp.py:72-94)
UploadResume(c, header, content, now) ==
    /\ call[c].pc = "idle"
    /\ LET k == Entered(c, "upload_resume", header, content)
           email == _get_user_email(header)
       IN IF HasRaised(email)
          THEN /\ call' = [call EXCEPT ![c] = [k EXCEPT !.pc = "done", !.result = email]]
               /\ UNCHANGED <<store, writes>>
          ELSE LET resume_key == ResumeKey(email.value)
               IN /\ store' = PutObject(store, resume_key, Object(Encode(content), now))
                  /\ writes' = Append(writes, Write(c, resume_key, Encode(content)))
                  /\ call' = [call EXCEPT ![c] =
                         [k EXCEPT !.pc = "done", !.email = email.value,
                                   !.store_writes = 1,
                                   !.keys = {resume_key},
                                   !.result = Returned(RESUME_UPLOADED_MSG)]]
    /\ UNCHANGED <<historyVars, formatVars, chatVars, nameVars, researchVars, uiVars>>

\* list_preps (mcp.py:105-137); the result is the set of the entries, the
\* listing being in key order
ListPreps(c, header) ==
    /\ call[c].pc = "idle"
    /\ LET k == Entered(c, "list_preps", header, <<>>)
           email == _get_user_email(header)
       IN IF HasRaised(email)
          THEN call' = [call EXCEPT ![c] = [k EXCEPT !.pc = "done", !.result = email]]
          ELSE LET prefix == PrepsPrefix(email.value)
                   contents == ListKeys(store, prefix)
               IN call' = [call EXCEPT ![c] =
                      [k EXCEPT !.pc = "done", !.email = email.value,
                                !.store_reads = 1,
                                !.keys = contents,
                                !.result =
                                    IF contents = {}
                                    THEN Raised(KeyError)
                                    ELSE Returned({InterviewPrepMetadata(
                                             RemovePdfSuffix(RemovePrefix(key, prefix)),
                                             store[key].LastModified,
                                             PresignedUrl(key)) : key \in contents})]]
    /\ UNCHANGED <<store, writes>>
    /\ UNCHANGED <<historyVars, formatVars, chatVars, nameVars, researchVars, uiVars>>

\* generate_prep up to the await of send_message (mcp.py:154-180)
StartGeneratePrep(c, header, job_description) ==
    /\ call[c].pc = "idle"
    /\ LET k == Entered(c, "generate_prep", header, job_description)
           email == _get_user_email(header)
       IN IF HasRaised(email)
          THEN call' = [call EXCEPT ![c] = [k EXCEPT !.pc = "done", !.result = email]]
          ELSE LET resume_text == _fetch_resume_text(store, email.value)
                   fetched == [k EXCEPT !.email = email.value,
                                        !.resume_text = resume_text,
                                        !.store_reads = 1,
                                        !.keys = {ResumeKey(email.value)}]
               IN IF resume_text = None
                  THEN call' = [call EXCEPT ![c] =
                           [fetched EXCEPT !.pc = "done",
                                           !.result = Returned(NO_RESUME_MSG)]]
                  ELSE call' = [call EXCEPT ![c] =
                           [fetched EXCEPT !.pc = "submitting",
                                           !.text = DelegationText(resume_text,
                                                                   job_description),
                                           !.submits = 1]]
    /\ UNCHANGED <<store, writes>>
    /\ UNCHANGED <<historyVars, formatVars, chatVars, nameVars, researchVars, uiVars>>

\* send_message returns and the first poll is issued (mcp.py:180-188)
SubmitReplies(c) ==
    /\ call[c].pc = "submitting"
    /\ call' = [call EXCEPT ![c] = [@ EXCEPT !.pc = "polling", !.polls = 1]]
    /\ UNCHANGED <<store, writes>>
    /\ UNCHANGED <<historyVars, formatVars, chatVars, nameVars, researchVars, uiVars>>

\* a handler that turns the exception into a result text
ReportAsMessage(k, exc) ==
    [k EXCEPT !.pc = "done", !.result = Returned(PyStr(Str(exc))), !.error = exc,
              !.requests_at_error = k.submits + k.polls]

\* an exception that leaves generate_prep, which has no try block
Propagate(k, exc) ==
    [k EXCEPT !.pc = "done", !.result = Raised(exc), !.error = exc,
              !.requests_at_error = k.submits + k.polls]

\* send_message raises (mcp.py:180)
SubmitFails(c, exc) ==
    /\ call[c].pc = "submitting"
    /\ call' = [call EXCEPT ![c] = Propagate(@, exc)]
    /\ UNCHANGED <<store, writes>>
    /\ UNCHANGED <<historyVars, formatVars, chatVars, nameVars, researchVars, uiVars>>

\* get_task raises (mcp.py:188)
PollFails(c, exc) ==
    /\ call[c].pc = "polling"
    /\ call' = [call EXCEPT ![c] = Propagate(@, exc)]
    /\ UNCHANGED <<store, writes>>
    /\ UNCHANGED <<historyVars, formatVars, chatVars, nameVars, researchVars, uiVars>>

\* what the poll saw, kept apart from what generate_prep does with it
Observed(k, task) ==
    IF task.status.state \in TerminalStates
    THEN [k EXCEPT !.task = task,
                   !.first_terminal_poll = IF @ = 0 THEN k.polls ELSE @,
                   !.first_terminal_state = IF @ = "none" THEN task.status.state ELSE @,
                   !.completed_task = IF task.status.state = "completed" /\ @ = None
                                      THEN task ELSE @]
    ELSE [k EXCEPT !.task = task, !.nonterminal_seen = @ + 1]

\* get_task returns: the match on the state, and for completed the rest of
\* generate_prep, which awaits nothing (mcp.py:188-246)
PollReplies(c, task, now) ==
    /\ call[c].pc = "polling"
    /\ LET k == Observed(call[c], task)
           state == task.status.state
           markdown_content == ExtractMarkdown(task)
           pdf_key == PdfKey(k.email, FilenameBase(markdown_content, now))
       IN IF state = "completed"
          THEN IF markdown_content = <<>>
               THEN /\ call' = [call EXCEPT ![c] =
                           [k EXCEPT !.pc = "done", !.result = Returned(NO_CONTENT_MSG)]]
                    /\ UNCHANGED <<store, writes>>
               ELSE /\ store' = PutObject(store, pdf_key, Object(Pdf(markdown_content), now))
                    /\ writes' = Append(writes, Write(c, pdf_key, Pdf(markdown_content)))
                    /\ call' = [call EXCEPT ![c] =
                           [k EXCEPT !.pc = "done",
                                     !.markdown_content = markdown_content,
                                     !.converted = 1,
                                     !.store_writes = 1,
                                     !.keys = @ \cup {pdf_key},
                                     !.result = Returned(PresignedUrl(pdf_key))]]
          ELSE IF IsFailureState(state)
               THEN /\ call' = [call EXCEPT ![c] =
                           [k EXCEPT !.pc = "done", !.result = Returned(FailedMsg(state))]]
                    /\ UNCHANGED <<store, writes>>
               ELSE /\ call' = [call EXCEPT ![c] =
                           [k EXCEPT !.pc = "sleeping", !.sleeps = @ + 1]]
                    /\ UNCHANGED <<store, writes>>
    /\ UNCHANGED <<historyVars, formatVars, chatVars, nameVars, researchVars, uiVars>>

\* asyncio.sleep(1) returns: the next poll, or the else of the for loop
\* (mcp.py:186-188, mcp.py:203-206)
SleepEnds(c) ==
    /\ call[c].pc = "sleeping"
    /\ IF call[c].polls \in Range(MAX_POLL_ATTEMPTS)
       THEN call' = [call EXCEPT ![c] = [@ EXCEPT !.pc = "polling", !.polls = @ + 1]]
       ELSE call' = [call EXCEPT ![c] =
                [@ EXCEPT !.pc = "done", !.result = Returned(TIMED_OUT_MSG)]]
    /\ UNCHANGED <<store, writes>>
    /\ UNCHANGED <<historyVars, formatVars, chatVars, nameVars, researchVars, uiVars>>

---------------------------------------------------------------------------
(* The delegation specification: one call of generate_prep, the            *)
(* collaborator answering each poll as it likes.                           *)

StoredResume(content) == Object(Encode(content), 0)

\* the stores at the start: no object, or one resume uploaded before
DelegationStores ==
    {EmptyStore}
        \cup {PutObject(EmptyStore, ResumeKey(ReplaceAt(EmailAtB.chars)), StoredResume(r)) :
                  r \in ResumeContents}

InitDelegation ==
    /\ call = [c \in {"c1"} |-> IdleCall]
    /\ store \in DelegationStores
    /\ writes = <<>>
    /\ IdleHistory
    /\ IdleFormat
    /\ IdleChat
    /\ IdleName
    /\ IdleResearch
    /\ IdleUi

NextDelegation ==
    \/ \E c \in DOMAIN call, header \in Headers :
           StartGeneratePrep(c, header, JobDescription)
    \/ \E c \in DOMAIN call : SubmitReplies(c)
    \/ \E c \in DOMAIN call, exc \in TransportErrors : SubmitFails(c, exc)
    \/ \E c \in DOMAIN call, task \in Tasks, now \in 0..MaxNow : PollReplies(c, task, now)
    \/ \E c \in DOMAIN call, exc \in TransportErrors : PollFails(c, exc)
    \/ \E c \in DOMAIN call : SleepEnds(c)

SpecDelegation == InitDelegation /\ [][NextDelegation]_vars

---------------------------------------------------------------------------
(* The store specification: two calls of the tools that run concurrently,  *)
(* the collaborator ending each task within MaxWait polls.                 *)

InitStore ==
    /\ call = [c \in {"c1", "c2"} |-> IdleCall]
    /\ store \in DelegationStores
    /\ writes = <<>>
    /\ IdleHistory
    /\ IdleFormat
    /\ IdleChat
    /\ IdleName
    /\ IdleResearch
    /\ IdleUi

NextStore ==
    \/ \E c \in DOMAIN call, header \in Headers : GetResume(c, header)
    \/ \E c \in DOMAIN call, header \in Headers, content \in ResumeContents,
          now \in 0..MaxNow : UploadResume(c, header, content, now)
    \/ \E c \in DOMAIN call, header \in Headers : ListPreps(c, header)
    \/ \E c \in DOMAIN call, header \in Headers :
           StartGeneratePrep(c, header, JobDescription)
    \/ \E c \in DOMAIN call : SubmitReplies(c)
    \/ \E c \in DOMAIN call, exc \in TransportErrors : SubmitFails(c, exc)
    \/ \E c \in DOMAIN call, task \in Tasks, now \in 0..MaxNow :
           /\ task.status.state \in TerminalStates \/ call[c].polls < MaxWait
           /\ PollReplies(c, task, now)
    \/ \E c \in DOMAIN call, exc \in TransportErrors : PollFails(c, exc)
    \/ \E c \in DOMAIN call : SleepEnds(c)

SpecStore == InitStore /\ [][NextStore]_vars

---------------------------------------------------------------------------
(* Input transcripts.  ChatRequest.chat_history is validated from the      *)
(* request body, so any list of ModelMessage can reach process_history.    *)
(* The inputs are an arbitrary head followed by a periodic continuation,   *)
(* which puts every arrangement of messages at the window boundary.        *)

Heads == UNION {[1..k -> ModelMessage] : k \in 0..MaxHead}

Patterns == {<<a>> : a \in ModelMessage} \cup {<<a, b>> : a, b \in ModelMessage}

Cycle(p, n) == [i \in 1..n |-> p[((i - 1) % Len(p)) + 1]]

Transcripts == {h \o Cycle(p, n) : h \in Heads, p \in Patterns, n \in 0..MaxFill}

---------------------------------------------------------------------------
(* The history specification.                                              *)

InitHistory ==
    /\ messages \in Transcripts
    /\ trimmed = NotCalled
    /\ retrimmed = NotCalled
    /\ history_pc = "input"
    /\ IdleFormat
    /\ IdleChat
    /\ IdleName
    /\ IdleTools
    /\ IdleResearch
    /\ IdleUi

\* trimmed = process_history(messages)
CallProcessHistory ==
    /\ history_pc = "input"
    /\ trimmed' = process_history(messages)
    /\ history_pc' = "trimmed"
    /\ UNCHANGED <<messages, retrimmed, formatVars, chatVars, nameVars, toolsVars, researchVars, uiVars>>

\* process_history(process_history(messages)): an exception of the inner
\* call propagates through the outer one
CallProcessHistoryAgain ==
    /\ history_pc = "trimmed"
    /\ retrimmed' = IF HasReturned(trimmed) THEN process_history(trimmed.value) ELSE trimmed
    /\ history_pc' = "retrimmed"
    /\ UNCHANGED <<messages, trimmed, formatVars, chatVars, nameVars, toolsVars, researchVars, uiVars>>

NextHistory == CallProcessHistory \/ CallProcessHistoryAgain

SpecHistory == InitHistory /\ [][NextHistory]_vars

---------------------------------------------------------------------------
(* The translation specification: _format_sse_event applied to one event.  *)

InitFormat ==
    /\ event \in StreamEvents
    /\ sse_event = NotCalled
    /\ format_pc = "input"
    /\ IdleHistory
    /\ IdleChat
    /\ IdleName
    /\ IdleTools
    /\ IdleResearch
    /\ IdleUi

\* sse_event = _format_sse_event(event)
CallFormatSseEvent ==
    /\ format_pc = "input"
    /\ sse_event' = _format_sse_event(event)
    /\ format_pc' = "formatted"
    /\ UNCHANGED <<event, historyVars, chatVars, nameVars, toolsVars, researchVars, uiVars>>

NextFormat == CallFormatSseEvent

SpecFormat == InitFormat /\ [][NextFormat]_vars

---------------------------------------------------------------------------
(* The chat specification: one call of sse_generator, driven by its        *)
(* consumer (the StreamingResponse of main.py:31-34) and by the agent run. *)

InitChat ==
    /\ chat_request \in ChatRequests
    /\ user_input = None
    /\ run_events = <<>>
    /\ run_state = RunState("not-started")
    /\ emitted = <<>>
    /\ escaped = NoException
    /\ chat_pc = "created"
    /\ IdleHistory
    /\ IdleFormat
    /\ IdleName
    /\ IdleTools
    /\ IdleResearch
    /\ IdleUi

\* the first __anext__: the body runs up to the first await of the run
\* (agent.py:152-168)
StartStream ==
    /\ chat_pc = "created"
    /\ user_input' = UserInput(chat_request)
    /\ run_state' = RunState("running")
    /\ chat_pc' = "await-event"
    /\ UNCHANGED <<chat_request, run_events, emitted, escaped, historyVars, formatVars, nameVars, toolsVars, researchVars, uiVars>>

\* the run produces event e; the loop body translates it and yields the
\* SSE string, if any (agent.py:164-171).  An exception raised by the
\* translation is raised inside the try block.
RunYieldsEvent(e) ==
    /\ chat_pc = "await-event"
    /\ run_state = RunState("running")
    /\ Len(run_events) < MaxEvents
    /\ run_events' = Append(run_events, e)
    /\ LET formatted == _format_sse_event(e)
       IN IF HasRaised(formatted)
          THEN LET handled == HandleException(formatted.exc)
               IN /\ emitted' = emitted \o handled.emit
                  /\ escaped' = handled.escaped
                  /\ chat_pc' = handled.pc
                  /\ run_state' = RunState("abandoned")
          ELSE /\ emitted' = IF formatted.value # None
                             THEN Append(emitted, formatted.value)
                             ELSE emitted
               /\ chat_pc' = IF formatted.value # None THEN "yielded" ELSE "await-event"
               /\ UNCHANGED <<escaped, run_state>>
    /\ UNCHANGED <<chat_request, user_input, historyVars, formatVars, nameVars, toolsVars, researchVars, uiVars>>

\* the run ends normally: the loop ends and the generator is exhausted
RunCompletes ==
    /\ chat_pc = "await-event"
    /\ run_state = RunState("running")
    /\ run_state' = RunState("completed")
    /\ chat_pc' = "closed"
    /\ UNCHANGED <<chat_request, user_input, run_events, emitted, escaped,
                   historyVars, formatVars, nameVars, toolsVars, researchVars, uiVars>>

\* the run raises exc while the generator awaits its next event
RunRaises(exc) ==
    /\ chat_pc = "await-event"
    /\ run_state = RunState("running")
    /\ run_state' = RunRaised(exc)
    /\ LET handled == HandleException(exc)
       IN /\ emitted' = emitted \o handled.emit
          /\ escaped' = handled.escaped
          /\ chat_pc' = handled.pc
    /\ UNCHANGED <<chat_request, user_input, run_events, historyVars, formatVars, nameVars, toolsVars, researchVars, uiVars>>

\* the consumer asks for the next item after a yielded event
ConsumerResumes ==
    /\ chat_pc = "yielded"
    /\ chat_pc' = "await-event"
    /\ UNCHANGED <<chat_request, user_input, run_events, run_state, emitted, escaped,
                   historyVars, formatVars, nameVars, toolsVars, researchVars, uiVars>>

\* the consumer asks for the next item after the error event: the
\* generator returns
ConsumerResumesAfterError ==
    /\ chat_pc = "yielded-error"
    /\ chat_pc' = "closed"
    /\ UNCHANGED <<chat_request, user_input, run_events, run_state, emitted, escaped,
                   historyVars, formatVars, nameVars, toolsVars, researchVars, uiVars>>

\* the consumer closes the generator at a yield (the client went away):
\* GeneratorExit is not an Exception, the handler does not run
ConsumerCloses ==
    /\ chat_pc = "yielded"
    /\ chat_pc' = "closed"
    /\ run_state' = RunState("abandoned")
    /\ UNCHANGED <<chat_request, user_input, run_events, emitted, escaped,
                   historyVars, formatVars, nameVars, toolsVars, researchVars, uiVars>>

NextChat ==
    \/ StartStream
    \/ \E e \in ChatEvents : RunYieldsEvent(e)
    \/ RunCompletes
    \/ \E exc \in RunExceptions : RunRaises(exc)
    \/ ConsumerResumes
    \/ ConsumerResumesAfterError
    \/ ConsumerCloses

SpecChat == InitChat /\ [][NextChat]_vars

---------------------------------------------------------------------------
(* The file name specification: the derivation applied to one markdown.    *)

InitName ==
    /\ name_input \in [markdown_content : Markdowns, now : 0..1]
    /\ filename_base = NotCalled
    /\ name_pc = "input"
    /\ IdleHistory
    /\ IdleFormat
    /\ IdleChat
    /\ IdleTools
    /\ IdleResearch
    /\ IdleUi

DeriveFilename ==
    /\ name_pc = "input"
    /\ filename_base' = Returned(FilenameBase(name_input.markdown_content, name_input.now))
    /\ name_pc' = "derived"
    /\ UNCHANGED <<name_input, historyVars, formatVars, chatVars, toolsVars, researchVars, uiVars>>

NextName == DeriveFilename

SpecName == InitName /\ [][NextName]_vars

---------------------------------------------------------------------------
(* The research specification: research_company on one search response.    *)

InitResearch ==
    /\ response \in SearchResponses
    /\ research = NotCalled
    /\ research_pc = "input"
    /\ IdleHistory
    /\ IdleFormat
    /\ IdleChat
    /\ IdleName
    /\ IdleTools
    /\ IdleUi

CallResearchCompany ==
    /\ research_pc = "input"
    /\ research' = research_company(response)
    /\ research_pc' = "returned"
    /\ UNCHANGED <<response, uiVars>>
    /\ UNCHANGED <<historyVars, formatVars, chatVars, nameVars, toolsVars>>

NextResearch == CallResearchCompany

SpecResearch == InitResearch /\ [][NextResearch]_vars

---------------------------------------------------------------------------
(* The UI specification: the handlers of one user session.                 *)

InitUi ==
    /\ session \in {SessionSet(EmptySession, "user", user) : user \in Users}
    /\ ui_outcome = NotCalled
    /\ ui_pc = "connected"
    /\ IdleHistory
    /\ IdleFormat
    /\ IdleChat
    /\ IdleName
    /\ IdleTools
    /\ IdleResearch

\* start (app.py:27-36); the greeting is persisted as a step of the thread
start ==
    /\ ui_pc = "connected"
    /\ session' = SessionSet(session, "chat_history", PyList(<<>>))
    /\ ui_outcome' = Returned(IF SessionGet(session, "user") # None
                              THEN PyStr(Greeting(SessionGet(session, "user").identifier))
                              ELSE None)
    /\ ui_pc' = "ready"
    /\ UNCHANGED researchVars
    /\ UNCHANGED <<historyVars, formatVars, chatVars, nameVars, toolsVars>>

\* resume (app.py:122-135)
resume(thread) ==
    /\ ui_pc = "connected"
    /\ session' = SessionSet(session, "chat_history", PyList(HistoryOfSteps(thread)))
    /\ ui_outcome' = Returned(None)
    /\ ui_pc' = "ready"
    /\ UNCHANGED researchVars
    /\ UNCHANGED <<historyVars, formatVars, chatVars, nameVars, toolsVars>>

\* on_message (app.py:39-119) when the stream ends: reply is the content of
\* msg after the events of the stream
on_message(content, reply) ==
    /\ ui_pc = "ready"
    /\ Len(ChatHistoryOrEmpty(session)) + 2 <= MaxTranscript
    /\ session' = SessionSet(session, "chat_history",
                      PyList(ChatHistoryOrEmpty(session)
                                 \o <<PromptRequest(content), ReplyResponse(reply)>>))
    /\ ui_outcome' = Returned(None)
    /\ UNCHANGED ui_pc
    /\ UNCHANGED researchVars
    /\ UNCHANGED <<historyVars, formatVars, chatVars, nameVars, toolsVars>>

\* on_message when the request to the backend raises (app.py:59-113): the
\* lines that append to the transcript are not reached
on_message_raises(exc) ==
    /\ ui_pc = "ready"
    /\ ui_outcome' = Raised(exc)
    /\ UNCHANGED <<session, ui_pc>>
    /\ UNCHANGED researchVars
    /\ UNCHANGED <<historyVars, formatVars, chatVars, nameVars, toolsVars>>

NextUi ==
    \/ start
    \/ \E thread \in Threads : resume(thread)
    \/ \E content \in MessageContents, reply \in {<<>>, <<"ok">>} : on_message(content, reply)
    \/ \E exc \in UiErrors : on_message_raises(exc)

SpecUi == InitUi /\ [][NextUi]_vars

---------------------------------------------------------------------------
(* Properties of process_history.                                          *)

\* s is a contiguous suffix of t
IsSuffix(s, t) ==
    /\ Len(s) <= Len(t)
    /\ s = SubSeq(t, Len(t) - Len(s) + 1, Len(t))

\* every Request with a tool-return part directly follows a Response with
\* a tool-call part
WellPaired(t) ==
    \A i \in 1..Len(t) :
        HasToolReturns(t[i]) => (i > 1 /\ HasToolCalls(t[i - 1]))

StartsWithToolReturns(t) ==
    t # <<>> /\ IsModelRequest(Head(t)) /\ HasToolReturns(Head(t))

\* C1: for every transcript, the result of process_history is empty or its
\* first message is a Request.
C1_ResultNeverStartsWithResponse ==
    (history_pc # "input" /\ HasReturned(trimmed)) =>
        (trimmed.value = <<>> \/ IsModelRequest(Head(trimmed.value)))

\* C2: for every transcript whose tool returns directly follow their tool
\* calls, the result of process_history has no Request with a tool-return
\* part at index 0.
C2_NoOrphanedToolReturnAtStart ==
    (history_pc # "input" /\ WellPaired(messages) /\ HasReturned(trimmed)) =>
        ~StartsWithToolReturns(trimmed.value)

\* C3: process_history never raises; it returns a (possibly empty) list
\* for every transcript.
C3_NeverRaises ==
    history_pc # "input" => HasReturned(trimmed)

C5_BoundedSuffix ==
    (history_pc # "input" /\ HasReturned(trimmed)) =>
        /\ Len(trimmed.value) <= MAX_HISTORY_MESSAGES
        /\ IsSuffix(trimmed.value, messages)

\* a transcript longer than the window has been cut below the window size
C5_Witness ==
    /\ history_pc = "trimmed"
    /\ Len(messages) > MAX_HISTORY_MESSAGES
    /\ HasReturned(trimmed)
    /\ Len(trimmed.value) > 0
    /\ Len(trimmed.value) < MAX_HISTORY_MESSAGES

\* C6: process_history is idempotent: applying it to its own outcome gives
\* that outcome again.
C6_Idempotent ==
    history_pc = "retrimmed" => retrimmed = trimmed

\* a transcript that was really cut has been processed twice
C6_Witness ==
    /\ history_pc = "retrimmed"
    /\ Len(messages) > MAX_HISTORY_MESSAGES
    /\ HasReturned(trimmed)
    /\ trimmed.value # <<>>
    /\ trimmed.value # messages
    /\ retrimmed = trimmed

---------------------------------------------------------------------------
(* Properties of sse_generator and _format_sse_event.                      *)

RECURSIVE Translations(_)
\* the SSE strings _format_sse_event returns for a sequence of events, in
\* order; an event with no SSE string contributes nothing
Translations(events) ==
    IF events = <<>> THEN <<>>
    ELSE LET formatted == _format_sse_event(Head(events))
         IN (IF HasReturned(formatted) /\ formatted.value # None
             THEN <<formatted.value>>
             ELSE <<>>) \o Translations(Tail(events))

ErrorEventCount == Cardinality({i \in 1..Len(emitted) : emitted[i].event = "error"})

\* C7: when the agent run raises, the stream holds exactly one error
\* event, it is the last event and carries str(e), every SSE string of the
\* events consumed before the failure precedes it, and no exception leaves
\* the generator.
C7_RunFailureEndsStreamWithOneError ==
    run_state.state = "raised" =>
        /\ escaped = NoException
        /\ ErrorEventCount = 1
        /\ emitted[Len(emitted)] =
               SseEvent("error",
                        json_dumps(PyDict(<< <<KeyMessage, PyStr(run_state.exc.message)>> >>)))
        /\ SubSeq(emitted, 1, Len(emitted) - 1) = Translations(run_events)

\* the run raised after two of its events had been sent, and the generator
\* has finished
C7_Witness ==
    /\ run_state.state = "raised"
    /\ Len(emitted) = 3
    /\ emitted[3].event = "error"
    /\ chat_pc = "closed"

\* C8: in every state of a stream the emitted SSE strings are the
\* translations of the events consumed so far, in their order, followed by
\* the error event when the run has raised.
C8_EmittedInEventOrder ==
    emitted = Translations(run_events)
              \o (IF run_state.state = "raised"
                  THEN <<ErrorSseEvent(run_state.exc)>>
                  ELSE <<>>)

\* C9: a stream holds an error event only if the agent run raised.
C9_ErrorOnlyWhenRunRaised ==
    ErrorEventCount > 0 => run_state.state = "raised"

\* the url test of the mapping table
IsStorageUrl(content) ==
    /\ content.type = "str"
    /\ StartsWith(content.chars, HTTPS_PREFIX)
    /\ Contains(content.chars, DOT_S3_DOT)

\* C10: a tool result of generate_prep gives pdf_generated with the content
\* as url exactly when the content starts with https:// and contains .s3.,
\* and nothing otherwise; a tool result of list_preps gives prep_list with
\* the content; any other tool gives nothing.
C10_ToolResultMappingTable ==
    (format_pc = "formatted" /\ event.event_kind = "function_tool_result") =>
        sse_event =
            Returned(
                IF event.result.tool_name = GENERATE_PREP
                THEN IF IsStorageUrl(event.result.content)
                     THEN SseEvent("pdf_generated",
                                   json_dumps(PyDict(<< <<KeyUrl, event.result.content>> >>)))
                     ELSE None
                ELSE IF event.result.tool_name = LIST_PREPS
                     THEN SseEvent("prep_list",
                                   json_dumps(PyDict(<< <<KeyPreps, event.result.content>> >>)))
                     ELSE None)

---------------------------------------------------------------------------
(* Properties of the file name derivation.                                 *)

\* a markdown heading: a line that starts with # and has a title after it
HasHeading(s) ==
    \E i \in 1..Len(s) :
        /\ s[i] = "#"
        /\ i = 1 \/ s[i - 1] = "\n"
        /\ \E k \in i..EndOfLine(s, i) : s[k] \notin {"#", " ", "\t"}

\* C20: the derived name is the timestamp fallback exactly when the markdown
\* has no heading, so a heading without a colon gives a name derived from
\* the heading; the example "# Prep: Acme Corp" gives acme-corp.
C20_FallbackExactlyWhenNoHeading ==
    name_pc = "derived" =>
        /\ (filename_base = Returned(FallbackName(name_input.now)))
               <=> ~HasHeading(name_input.markdown_content)
        /\ name_input.markdown_content = ExampleMarkdown =>
               filename_base = Returned(<<"a", "c", "m", "e", "-", "c", "o", "r", "p">>)

---------------------------------------------------------------------------
(* Properties of the delegation of generate_prep.                          *)

\* C11: when the k-th poll is the first to observe failed, canceled or
\* rejected, exactly k polls are issued, k - 1 sleeps were made and none
\* follows, and the call has returned the failure message with that state.
C11_FailureStopsPolling ==
    \A c \in DOMAIN call :
        LET k == call[c]
        IN (k.first_terminal_poll # 0
            /\ k.first_terminal_state \in {"failed", "canceled", "rejected"}) =>
               /\ k.first_terminal_poll \in 1..120
               /\ k.polls = k.first_terminal_poll
               /\ k.sleeps = k.first_terminal_poll - 1
               /\ k.pc = "done"
               /\ k.result = Returned(FailedMsg(k.first_terminal_state))

C11_Witness ==
    \E c \in DOMAIN call :
        /\ call[c].first_terminal_poll = 3
        /\ call[c].first_terminal_state = "failed"
        /\ call[c].result = Returned(FailedMsg("failed"))

\* C12: a call issues at most 120 polls; it returns the timed-out message
\* exactly when 120 polls were answered and none of them observed a
\* terminal state; a task first observed as completed on the 120th poll is
\* handled as completed.
C12_AtMost120Polls ==
    \A c \in DOMAIN call :
        LET k == call[c]
        IN /\ k.polls <= 120
           /\ k.sleeps <= 120
           /\ (k.result = Returned(TIMED_OUT_MSG))
                  <=> (k.pc = "done" /\ k.nonterminal_seen = 120
                       /\ k.first_terminal_poll = 0 /\ k.error = NoException)
           /\ (k.first_terminal_poll = 120 /\ k.first_terminal_state = "completed") =>
                  /\ k.pc = "done"
                  /\ k.result \in {Returned(NO_CONTENT_MSG)}
                         \cup {Returned(PresignedUrl(key)) : key \in DOMAIN store}

C12_Witness ==
    \E c \in DOMAIN call :
        /\ call[c].result = Returned(TIMED_OUT_MSG)
        /\ call[c].polls = 120

RECURSIVE AllParts(_)
\* the parts of all the artifacts, in the order returned
AllParts(artifacts) ==
    IF artifacts = <<>> THEN <<>>
    ELSE Head(artifacts).parts \o AllParts(Tail(artifacts))

RECURSIVE Concat(_)
Concat(parts) == IF parts = <<>> THEN <<>> ELSE Head(parts).text \o Concat(Tail(parts))

\* the text fragments of a task, concatenated in the order returned
TextFragments(task) ==
    Concat(SelectSeq(AllParts(IF "artifacts" \in DOMAIN task THEN task.artifacts ELSE <<>>),
                     LAMBDA part : part.kind = "text"))

WritesOf(c) == SelectSeq(writes, LAMBDA w : w.call = c)

\* C13: when a poll observed completed, the markdown is the concatenation
\* of the text fragments of all the artifacts of that task in order, and it
\* is what is converted and stored; when the concatenation is empty the
\* call returns the no-content message and converts and stores nothing.
C13_MarkdownIsConcatenation ==
    \A c \in DOMAIN call :
        LET k == call[c]
        IN k.completed_task # None =>
               IF TextFragments(k.completed_task) = <<>>
               THEN /\ k.result = Returned(NO_CONTENT_MSG)
                    /\ k.converted = 0
                    /\ k.store_writes = 0
                    /\ WritesOf(c) = <<>>
               ELSE /\ k.markdown_content = TextFragments(k.completed_task)
                    /\ Len(WritesOf(c)) = 1
                    /\ WritesOf(c)[1].body = Pdf(TextFragments(k.completed_task))

C13_Witness ==
    \E c \in DOMAIN call :
        /\ call[c].completed_task # None
        /\ Len(TaskArtifacts(call[c].completed_task)) = 2
        /\ call[c].markdown_content = <<"#", " ", "P", ":", " ", "A", "c">>
        /\ WritesOf(c) # <<>>

\* the store key of the resume of the identity of a header
ResumeKeyOf(header) == ResumeKey(ReplaceAt(header.chars))

\* C14: a generate_prep call of an identity that has no resume in the store
\* returns the no-resume message and makes no submission, no poll and no
\* store write.
C14_NoResumeNoDelegation ==
    \A c \in DOMAIN call :
        LET k == call[c]
        IN (k.tool = "generate_prep" /\ ~PyNot(k.header)
            /\ ResumeKeyOf(k.header) \notin DOMAIN store) =>
               /\ k.pc = "done"
               /\ k.result = Returned(NO_RESUME_MSG)
               /\ k.submits = 0
               /\ k.polls = 0
               /\ k.store_writes = 0
               /\ WritesOf(c) = <<>>

C14_Witness ==
    \E c \in DOMAIN call :
        /\ call[c].tool = "generate_prep"
        /\ call[c].header = EmailUnderscores
        /\ store = EmptyStore
        /\ call[c].result = Returned(NO_RESUME_MSG)

\* C15: after a transport error of the submission or of a poll the call
\* has ended, the error is what it raised, no submission or poll was made
\* after the failing one, and the call wrote nothing to the store.
C15_TransportErrorPropagates ==
    \A c \in DOMAIN call :
        LET k == call[c]
        IN k.error # NoException =>
               /\ k.pc = "done"
               /\ k.result = Raised(k.error)
               /\ k.submits + k.polls = k.requests_at_error
               /\ k.store_writes = 0
               /\ WritesOf(c) = <<>>

C15_Witness ==
    \E c \in DOMAIN call :
        /\ call[c].error \in TransportErrors
        /\ call[c].polls = 2
        /\ call[c].result = Raised(call[c].error)

---------------------------------------------------------------------------
(* Properties of the tools and of the object store.                        *)

\* C16: a call of any of the four tools without the identity header, or
\* with an empty one, has raised the missing-header error and has made no
\* store read, no store write, no submission and no poll.
C16_MissingIdentityFailsFirst ==
    \A c \in DOMAIN call :
        LET k == call[c]
        IN (k.tool # "none" /\ (k.header = None \/ k.header = PyStr(<<>>))) =>
               /\ k.pc = "done"
               /\ k.result = Raised(ValueError)
               /\ k.store_reads = 0
               /\ k.store_writes = 0
               /\ k.keys = {}
               /\ k.submits = 0
               /\ k.polls = 0
               /\ WritesOf(c) = <<>>

C16_Witness ==
    /\ call["c1"].tool = "generate_prep"
    /\ call["c1"].header = PyStr(<<>>)
    /\ call["c1"].result = Raised(ValueError)
    /\ call["c2"].tool = "upload_resume"
    /\ call["c2"].header = None
    /\ call["c2"].result = Raised(ValueError)

\* C17: two calls whose identity headers differ touch no store key in
\* common.
C17_IdentitiesTouchDisjointKeys ==
    \A c1, c2 \in DOMAIN call :
        (call[c1].tool # "none" /\ call[c2].tool # "none"
         /\ call[c1].header # call[c2].header) =>
            call[c1].keys \cap call[c2].keys = {}

\* C18: every document a generate_prep call has stored is still in the
\* store at its key with the content it was stored with.
C18_StoredDocumentsNeverChange ==
    \A i \in 1..Len(writes) :
        writes[i].body.type = "pdf" =>
            /\ writes[i].key \in DOMAIN store
            /\ store[writes[i].key].Body = writes[i].body

Concurrent(c1, c2) ==
    c1 \in call[c2].concurrent_with \/ c2 \in call[c1].concurrent_with

\* the last write of the log to a key
LastWrite(key) ==
    writes[CHOOSE i \in 1..Len(writes) :
               /\ writes[i].key = key
               /\ \A j \in (i + 1)..Len(writes) : writes[j].key # key]

\* C19: when two concurrent generate_prep calls of one identity have
\* stored under the same key, both have returned the handle of that key,
\* the key holds the document of the later of the two writes, and neither
\* call has written any other key.
C19_LastWriterWins ==
    \A c1, c2 \in DOMAIN call :
        (c1 # c2 /\ Concurrent(c1, c2)
         /\ call[c1].tool = "generate_prep" /\ call[c2].tool = "generate_prep"
         /\ call[c1].header = call[c2].header
         /\ WritesOf(c1) # <<>> /\ WritesOf(c2) # <<>>
         /\ WritesOf(c1)[1].key = WritesOf(c2)[1].key) =>
            LET key == WritesOf(c1)[1].key
            IN /\ call[c1].pc = "done" /\ call[c2].pc = "done"
               /\ call[c1].result = Returned(PresignedUrl(key))
               /\ call[c2].result = Returned(PresignedUrl(key))
               /\ Len(WritesOf(c1)) = 1 /\ Len(WritesOf(c2)) = 1
               /\ LastWrite(key).call \in {c1, c2}
               /\ store[key].Body = LastWrite(key).body

C19_Witness ==
    /\ Concurrent("c1", "c2")
    /\ call["c1"].tool = "generate_prep" /\ call["c2"].tool = "generate_prep"
    /\ call["c1"].header = EmailAtB /\ call["c2"].header = EmailAtB
    /\ Len(writes) = 2
    /\ writes[1].key = writes[2].key
    /\ writes[1].body # writes[2].body
    /\ store[writes[2].key].Body = writes[2].body

---------------------------------------------------------------------------
(* Properties of research_company and of the UI session.                   *)

RECURSIVE FormattedEntries(_)
\* the formatted entries of the results, in order
FormattedEntries(results) ==
    IF results = <<>> THEN <<>>
    ELSE <<FormatResult(Head(results))>> \o FormattedEntries(Tail(results))

\* C21: research_company returns the formatted entries of all the results
\* of the search joined by the separator, in order, and the text
\* "No results found." when the search has no result.
C21_AccumulatesAllResults ==
    research_pc = "returned" =>
        research = Returned(IF ResponseResults(response) = <<>>
                            THEN NO_RESULTS_MSG
                            ELSE PyStr(Join(<<"\n---\n">>,
                                            FormattedEntries(ResponseResults(response)))))

\* C22: the transcript of the session is empty or starts with a request,
\* after start, resume and every handled message.
C22_TranscriptStartsWithRequest ==
    ui_pc = "ready" =>
        \/ ChatHistoryOrEmpty(session) = <<>>
        \/ IsModelRequest(ChatHistoryOrEmpty(session)[1])

---------------------------------------------------------------------------
(* Properties of the store writes of generate_prep and of the resume.      *)

\* C23: a generate_prep call has written to the store only when a poll
\* observed completed with a non-empty concatenated markdown; a call that
\* ended on a failure state or on the exhausted poll budget has returned a
\* message, has raised nothing and has left the store as it was.
C23_WritesOnlyOnSuccess ==
    \A c \in DOMAIN call :
        LET k == call[c]
            failed == k.first_terminal_state \in {"failed", "canceled", "rejected"}
            timed_out == k.pc = "done" /\ k.nonterminal_seen = 120
        IN /\ WritesOf(c) # <<>> =>
                  /\ k.completed_task # None
                  /\ TextFragments(k.completed_task) # <<>>
           /\ (failed \/ timed_out) =>
                  /\ k.result \in {Returned(FailedMsg(state)) :
                                       state \in {"failed", "canceled", "rejected"}}
                         \cup {Returned(TIMED_OUT_MSG)}
                  /\ WritesOf(c) = <<>>
                  /\ writes = <<>> => store \in DelegationStores

C23_Witness ==
    \E c \in DOMAIN call :
        /\ call[c].first_terminal_state = "canceled"
        /\ call[c].first_terminal_poll = 2
        /\ call[c].result = Returned(FailedMsg("canceled"))
        /\ store \in DelegationStores \ {EmptyStore}

\* C24: a get_resume call made after a successful upload_resume(c) of the
\* same identity returns exactly c; and a get_resume call returns the
\* no-resume message exactly when a generate_prep call of the same identity
\* on the same store returns it without a submission.
C24_ResumeRoundTrip ==
    \A c1, c2 \in DOMAIN call :
        /\ (call[c1].tool = "upload_resume"
            /\ call[c1].result = Returned(RESUME_UPLOADED_MSG)
            /\ call[c2].tool = "get_resume"
            /\ call[c2].header = call[c1].header
            /\ c1 \in call[c2].entered_after) =>
               call[c2].result = Returned(PyStr(call[c1].argument))
        /\ (call[c1].tool = "get_resume" /\ call[c2].tool = "generate_prep"
            /\ call[c1].header = call[c2].header /\ ~PyNot(call[c1].header)) =>
               (call[c1].result = Returned(NO_RESUME_MSG))
                   <=> (call[c2].result = Returned(NO_RESUME_MSG) /\ call[c2].submits = 0)

=============================================================================
